---- MODULE Spec2Model ----
(***************************************************************************)
(* Scuttlebutt (src/scuttlebutt/src/main.rs): the REST control plane that  *)
(* manages users, groups, DMs, channels, threads and message metadata.     *)
(*                                                                         *)
(* Every request handler of `impl Api` is one action: the handler's checks *)
(* and early returns are the branches, its store calls are applied in the  *)
(* order of the code.  The store (`pub mod db`, the `Database` trait) is   *)
(* not part of the source under src/: its calls are the db_* operators,    *)
(* written from the data model of the specification (member sets with set  *)
(* semantics; a removal of an absent element is a no-op).                  *)
(***************************************************************************)
EXTENDS Integers, FiniteSets, Sequences, TLC

\* ------------------------------------------------------------------ bounds
\* gen_id never returns an id twice, and every lookup of the store is by the
\* type of the entity (IdType), so an id is modelled as its place among the
\* ids handed out for its type: the n-th user, group, channel.  The model
\* stops allocating after MaxUsers users, and after the groups and channels
\* of the run's scope.
MaxUsers == 2
\* Messages are written by the messaging service, with ids of its own.
MaxMsgs == 1

UserIds == 1..MaxUsers
MsgIds == 1..MaxMsgs

\* Names a request may carry; "" is the empty string the handlers reject.
Names == {"", "eng"}
\* update_channel does not look at the name it is given.
Renames == {"eng"}
\* Password hashes a request may carry, each with its length in characters:
\* "h64" is 64 lower-case hex digits, "H64" the same digits in upper case,
\* "g64" 64 other hex digits, "z64" 64 characters that are not all hex digits,
\* "short" 63 hex digits.
HashLen(h) == IF h = "short" THEN 63 ELSE 64
CoreHashes == {"h64", "short"}
AllHashes == {"h64", "H64", "g64", "z64", "short"}
\* hex::decode: the bytes the digits stand for, whatever their case; an
\* error for a character that is no hex digit and for an odd length.
hex_decode(h) ==
  IF h \in {"h64", "H64"} THEN [ok |-> TRUE, bytes |-> 1]
  ELSE IF h = "g64" THEN [ok |-> TRUE, bytes |-> 2]
  ELSE [ok |-> FALSE, bytes |-> 0]

VARIABLES
  db,       \* the store: users, indices, groups, channels, messages
  next_id,  \* the state of gen_id's generator: the next id of each type
  next_msg, \* the next message id of the messaging service
  last,     \* the last request handled and its response
  scope,    \* what a run observes and allocates: fixed when it starts
  idgen,    \* gen_id's mutex and generator, and the callers inside gen_id
  auth,     \* the clock, the token of the last login, the last token checked
  run       \* the cascades under way, store call by store call

vars == <<db, next_id, next_msg, last, scope, idgen, auth, run>>

\* The hashes the requests of a run carry.
Hashes == scope.hashes

\* ------------------------------------------------------- function helpers
Put(f, k, v) == [x \in (DOMAIN f) \cup {k} |-> IF x = k THEN v ELSE f[x]]
Drop(f, k) == [x \in (DOMAIN f) \ {k} |-> f[x]]

\* ---------------------------------------------------------------- store
\* valid_id(IdType::X, id)
valid_user(d, id) == id \in DOMAIN d.users
valid_group(d, id) == id \in DOMAIN d.groups
valid_channel(d, id) == id \in DOMAIN d.channels
valid_message(d, id) == id \in DOMAIN d.messages

db_create_user(d, id, hash) == [d EXCEPT !.users = Put(@, id, hash)]
db_create_user_groups(d, id) == [d EXCEPT !.user_groups[id] = {}]
db_create_user_dms(d, id) == [d EXCEPT !.user_dms[id] = {}]
db_delete_user(d, id) == [d EXCEPT !.users = Drop(@, id)]
db_get_user_hash(d, id) == d.users[id]
db_get_user_groups(d, id) == d.user_groups[id]
db_get_user_dms(d, id) == d.user_dms[id]
db_delete_user_groups(d, id) == [d EXCEPT !.user_groups[id] = {}]
db_add_user_group(d, uid, gid) == [d EXCEPT !.user_groups[uid] = @ \cup {gid}]
db_add_user_dm(d, uid, gid) == [d EXCEPT !.user_dms[uid] = @ \cup {gid}]
db_remove_user_group(d, uid, gid) == [d EXCEPT !.user_groups[uid] = @ \ {gid}]

\* create_group(gid, owner, name, is_dm): the creator is the first member.
db_create_group(d, gid, uid, name, is_dm) ==
  [d EXCEPT !.groups = Put(@, gid,
     [name |-> name, owner |-> uid, admin |-> {}, members |-> {uid},
      channels |-> {}, is_dm |-> is_dm])]
db_update_group(d, gid, name) ==
  IF valid_group(d, gid) THEN [d EXCEPT !.groups[gid].name = name] ELSE d
db_delete_group(d, gid) == [d EXCEPT !.groups = Drop(@, gid)]
db_get_group_owner(d, gid) == IF valid_group(d, gid) THEN d.groups[gid].owner ELSE 0
db_get_group_admin(d, gid) == IF valid_group(d, gid) THEN d.groups[gid].admin ELSE {}
db_get_group_members(d, gid) == IF valid_group(d, gid) THEN d.groups[gid].members ELSE {}
db_get_group_channels(d, gid) == IF valid_group(d, gid) THEN d.groups[gid].channels ELSE {}
db_is_group_dm(d, gid) == valid_group(d, gid) /\ d.groups[gid].is_dm
db_add_group_member(d, gid, uid) ==
  IF valid_group(d, gid) THEN [d EXCEPT !.groups[gid].members = @ \cup {uid}] ELSE d
db_remove_group_member(d, gid, uid) ==
  IF valid_group(d, gid) THEN [d EXCEPT !.groups[gid].members = @ \ {uid}] ELSE d
db_add_group_admin(d, gid, uid) ==
  IF valid_group(d, gid) THEN [d EXCEPT !.groups[gid].admin = @ \cup {uid}] ELSE d
db_remove_group_admin(d, gid, uid) ==
  IF valid_group(d, gid) THEN [d EXCEPT !.groups[gid].admin = @ \ {uid}] ELSE d
db_add_group_channel(d, gid, cid) ==
  IF valid_group(d, gid) THEN [d EXCEPT !.groups[gid].channels = @ \cup {cid}] ELSE d
db_remove_group_channel(d, gid, cid) ==
  IF valid_group(d, gid) THEN [d EXCEPT !.groups[gid].channels = @ \ {cid}] ELSE d

\* create_channel(cid, gid, uid, name): public, the creator its only member.
db_create_channel(d, cid, gid, uid, name) ==
  [d EXCEPT !.channels = Put(@, cid,
     [group |-> gid, name |-> name, members |-> {uid}, private |-> FALSE])]
db_update_channel(d, cid, name) ==
  IF valid_channel(d, cid) THEN [d EXCEPT !.channels[cid].name = name] ELSE d
db_delete_channel(d, cid) == [d EXCEPT !.channels = Drop(@, cid)]
db_get_channel_members(d, cid) ==
  IF valid_channel(d, cid) THEN d.channels[cid].members ELSE {}
db_is_channel_private(d, cid) == valid_channel(d, cid) /\ d.channels[cid].private
db_set_channel_private(d, cid, val) ==
  IF valid_channel(d, cid) THEN [d EXCEPT !.channels[cid].private = val] ELSE d
db_add_channel_member(d, cid, uid) ==
  IF valid_channel(d, cid) THEN [d EXCEPT !.channels[cid].members = @ \cup {uid}] ELSE d
db_remove_channel_member(d, cid, uid) ==
  IF valid_channel(d, cid) THEN [d EXCEPT !.channels[cid].members = @ \ {uid}] ELSE d

\* set_thread(mid, tid): a message has at most one thread, and the thread of
\* a message is set once (0: none yet).  For a message that has one the call
\* returns Err and writes nothing.
db_set_thread_fails(d, mid) == valid_message(d, mid) /\ d.messages[mid].thread # 0
db_set_thread(d, mid, tid) ==
  IF valid_message(d, mid) /\ ~db_set_thread_fails(d, mid)
    THEN [d EXCEPT !.messages[mid].thread = tid]
  ELSE d
db_delete_message(d, mid) == [d EXCEPT !.messages = Drop(@, mid)]

\* get_user(id): Err for an id of no user.
db_get_user_fails(d, id) == ~valid_user(d, id)
\* get_messages(cid, n): the messages of the channel (the last n of them).
db_get_messages(d, cid) == {x \in DOMAIN d.messages : d.messages[x].channel = cid}

\* Whether a removing store call returns Err: never, a removal of an absent
\* element (or from an absent row) is a no-op.
db_remove_fails(d, id, uid) == FALSE

\* ------------------------------------------------------------ role checks
\* self.db.get_group_owner(gid) == auth.id: update_group, delete_group,
\* add_group_admin, remove_group_admin.
owner_check(d, p, gid) == db_get_group_owner(d, gid) = p
\* self.db.get_group_admin(gid).contains(&auth.id): make_channel,
\* update_channel, make_channel_private, delete_channel, add_channel_member,
\* remove_channel_member, remove_group_member, delete_message.
\* (First an admin test that every member of the group passes.)
admin_check_any_member(d, p, gid) == p \in db_get_group_members(d, gid)
admin_check(d, p, gid) == p \in db_get_group_admin(d, gid)
\* add_group_member: an admin, or the owner.
add_member_check(d, p, gid) == admin_check(d, p, gid) \/ owner_check(d, p, gid)
\* remove_group_member without its test of the owner.
remove_member_check_any_target(d, p, gid, uid) == admin_check(d, p, gid)
\* remove_group_member: an admin, and the target is not the owner.
remove_member_check(d, p, gid, uid) ==
  admin_check(d, p, gid) /\ db_get_group_owner(d, gid) # uid
\* get_group: the principal is in the group's member list.
member_check(d, p, gid) == p \in db_get_group_members(d, gid)
\* get_channel: the principal is in the channel's member list.
channel_member_check(d, p, cid) == p \in db_get_channel_members(d, cid)

\* ------------------------------------------------------------- cascades
\* for channel in channels { remove_channel_member(channel, uid) }
RECURSIVE remove_from_channels(_, _, _)
remove_from_channels(d, cs, uid) ==
  IF cs = {} THEN d
  ELSE LET c == CHOOSE x \in cs : TRUE
       IN remove_from_channels(db_remove_channel_member(d, c, uid), cs \ {c}, uid)

\* __remove_group_member that takes the user to be a member still, and does
\* nothing for one who is not.
__remove_group_member_if_member(d, gid, uid) ==
  IF uid \notin db_get_group_members(d, gid) THEN d
  ELSE LET d1 == db_remove_group_member(d, gid, uid)
           d2 == remove_from_channels(d1, db_get_group_channels(d1, gid), uid)
       IN db_remove_user_group(d2, uid, gid)
\* Api::__remove_group_member: the member list, then every channel of the
\* group's channel list, then the user's group index.
__remove_group_member(d, gid, uid) ==
  LET d1 == db_remove_group_member(d, gid, uid)
      d2 == remove_from_channels(d1, db_get_group_channels(d1, gid), uid)
  IN db_remove_user_group(d2, uid, gid)

\* Whether one of the cascade's store calls returns Err (the unwrap panics).
__remove_group_member_fails(d, gid, uid) ==
  \/ db_remove_fails(d, gid, uid)
  \/ \E c \in db_get_group_channels(d, gid) : db_remove_fails(d, c, uid)
  \/ db_remove_fails(d, uid, gid)

\* The states the store is in after the cascade ran its first store calls and
\* then stopped: none, the member list, the member list and some of the
\* channels, all of it.
__remove_group_member_partial(d, gid, uid) ==
  LET d1 == db_remove_group_member(d, gid, uid)
  IN {d, d1}
     \cup {remove_from_channels(d1, cs, uid) : cs \in SUBSET db_get_group_channels(d1, gid)}
     \cup {__remove_group_member(d, gid, uid)}

\* for group in groups { self.__remove_group_member(group, uid) }
RECURSIVE remove_from_groups(_, _, _)
remove_from_groups(d, gs, uid) ==
  IF gs = {} THEN d
  ELSE LET g == CHOOSE x \in gs : TRUE
       IN remove_from_groups(__remove_group_member(d, g, uid), gs \ {g}, uid)

\* A delete_user that does nothing for a user whose record is gone.
delete_user_db_if_user(d, p) ==
  IF ~valid_user(d, p) THEN d
  ELSE LET d1 == db_delete_user(d, p)
           d2 == remove_from_groups(d1, db_get_user_groups(d1, p), p)
           d3 == remove_from_groups(d2, db_get_user_dms(d2, p), p)
       IN db_delete_user_groups(d3, p)
\* The store calls of Api::delete_user.
delete_user_db(d, p) ==
  LET d1 == db_delete_user(d, p)
      d2 == remove_from_groups(d1, db_get_user_groups(d1, p), p)
      d3 == remove_from_groups(d2, db_get_user_dms(d2, p), p)
  IN db_delete_user_groups(d3, p)

RECURSIVE remove_group_from_users(_, _, _)
remove_group_from_users(d, us, gid) ==
  IF us = {} THEN d
  ELSE LET u == CHOOSE x \in us : TRUE
       IN remove_group_from_users(db_remove_user_group(d, u, gid), us \ {u}, gid)

RECURSIVE delete_channels(_, _)
delete_channels(d, cs) ==
  IF cs = {} THEN d
  ELSE LET c == CHOOSE x \in cs : TRUE
       IN delete_channels(db_delete_channel(d, c), cs \ {c})

\* The store calls of Api::delete_group, past its checks.
delete_group_db(d, gid) ==
  LET group == d.groups[gid]
      d1 == remove_group_from_users(d, group.members, gid)
      d2 == delete_channels(d1, group.channels)
  IN db_delete_group(d2, gid)

\* ------------------------------------------------- cascades, interrupted
\* The stores a cascade leaves when one of its store calls returns Err and
\* the unwrap panics: the calls before that one are done, the others are not.
\* __remove_group_member: nothing, the member list, the member list and some
\* of the channels (all of them, when the call on the index fails).
__remove_group_member_interrupted(d, gid, uid) ==
  LET d1 == db_remove_group_member(d, gid, uid)
  IN {d, d1}
     \cup {remove_from_channels(d1, cs, uid) : cs \in SUBSET db_get_group_channels(d1, gid)}
\* The loop over the groups gs of an index: some groups done, one under way.
remove_from_groups_interrupted(d, gs, uid) ==
  UNION {UNION {__remove_group_member_interrupted(remove_from_groups(d, done, uid), g, uid)
                  : g \in gs \ done}
           : done \in SUBSET gs}
\* Api::delete_user
delete_user_interrupted(d, p) ==
  LET d1 == db_delete_user(d, p)
      d2 == remove_from_groups(d1, db_get_user_groups(d1, p), p)
      d3 == remove_from_groups(d2, db_get_user_dms(d2, p), p)
  IN {d, d1, d2, d3}
     \cup remove_from_groups_interrupted(d1, db_get_user_groups(d1, p), p)
     \cup remove_from_groups_interrupted(d2, db_get_user_dms(d2, p), p)
\* Api::delete_group, past its checks
delete_group_interrupted(d, gid) ==
  LET group == d.groups[gid]
      d1 == remove_group_from_users(d, group.members, gid)
  IN {remove_group_from_users(d, us, gid) : us \in SUBSET group.members}
     \cup {delete_channels(d1, cs) : cs \in SUBSET group.channels}

\* make_group that does not make the creator an admin.
make_group_db_no_admin(d, p, gid, cid, name) ==
  LET d1 == db_create_group(d, gid, p, name, FALSE)
      d2 == db_add_user_group(d1, p, gid)
      d4 == db_create_channel(d2, cid, gid, p, "main")
  IN db_add_group_channel(d4, gid, cid)
\* The store calls of Api::make_group, past its checks.
make_group_db(d, p, gid, cid, name) ==
  LET d1 == db_create_group(d, gid, p, name, FALSE)
      d2 == db_add_user_group(d1, p, gid)
      d3 == db_add_group_admin(d2, gid, p)
      d4 == db_create_channel(d3, cid, gid, p, "main")
  IN db_add_group_channel(d4, gid, cid)

\* The store calls of Api::make_dm, past its check.
make_dm_db(d, p, uid, gid, cid) ==
  LET d1 == db_create_group(d, gid, p, "", TRUE)
      d2 == db_add_group_member(d1, gid, uid)
      d3 == db_add_user_dm(d2, p, gid)
      d4 == db_add_user_dm(d3, uid, gid)
      d5 == db_create_channel(d4, cid, gid, p, "main")
      d6 == db_add_group_channel(d5, gid, cid)
  IN db_add_channel_member(d6, cid, uid)

\* The loop of add_group_member without its test of is_channel_private.
RECURSIVE add_to_all_channels(_, _, _)
add_to_all_channels(d, cs, uid) ==
  IF cs = {} THEN d
  ELSE LET c == CHOOSE x \in cs : TRUE
       IN add_to_all_channels(db_add_channel_member(d, c, uid), cs \ {c}, uid)
\* for channel in channels { if private { continue } add_channel_member }
RECURSIVE add_to_public_channels(_, _, _)
add_to_public_channels(d, cs, uid) ==
  IF cs = {} THEN d
  ELSE LET c == CHOOSE x \in cs : TRUE
           d1 == IF db_is_channel_private(d, c) THEN d
                 ELSE db_add_channel_member(d, c, uid)
       IN add_to_public_channels(d1, cs \ {c}, uid)

\* The store calls of Api::add_group_member, past its checks.
add_group_member_db(d, gid, uid) ==
  LET d1 == db_add_group_member(d, gid, uid)
      d2 == add_to_public_channels(d1, db_get_group_channels(d1, gid), uid)
  IN IF ~db_is_group_dm(d2, gid) THEN db_add_user_group(d2, uid, gid)
     ELSE db_add_user_dm(d2, uid, gid)

\* The store calls of Api::make_thread, past its checks.
make_thread_db(d, p, mid, tid, name) ==
  LET msg == d.messages[mid]
      chan == d.channels[msg.channel]
      d1 == db_create_channel(d, tid, chan.group, p, name)
      d2 == db_set_channel_private(d1, tid, TRUE)
  IN db_set_thread(d2, mid, tid)

\* --------------------------------------------------------------- tokens
\* Duration::days(1), in ticks of the clock.
Day == 1
\* The clock of a run stops at MaxNow.
MaxNow == 3
\* The secret of this process (main: seven random characters) and another.
ServerKey == "server"
OtherKey == "other"
\* struct Claims { id, exp }
Claims(id, exp) == [kind |-> "claims", id |-> id, exp |-> exp]
\* The signature segment: HMAC-SHA256 under a key over the segments signed.
Mac(key, seg) == [key |-> key, over |-> seg]
\* The token is header.claims.signature.  Its claims segment is written as
\* what its decoding gives: the claims for the base64 of their JSON,
\* "not_base64" for a text base64::decode rejects, "not_utf8" for base64
\* of bytes that are no UTF-8, "not_json" for base64 of a text that is no
\* JSON of Claims.  parts is the number of segments split(".") gives.
sign_with_key(key, claims) ==
  [parts |-> 3, claims |-> claims, sig |-> Mac(key, claims)]
NoToken == [parts |-> 0, claims |-> [kind |-> "none"], sig |-> [kind |-> "none"]]
\* VerifyWithKey::verify_with_key: the signature is the key's over the
\* token's own segments, and the claims segment parses.
verify_with_key(tok, key) ==
  /\ tok.parts = 3
  /\ tok.sig = Mac(key, tok.claims)
  /\ tok.claims.kind = "claims"
\* The results of api_checker: Some(claims), None, and the panic of unwrap.
None == [kind |-> "None"]
Panicked == [kind |-> "Panic"]
\* api_checker, at time now
api_checker(tok, now) ==
  IF tok.parts < 2 THEN None
  ELSE IF tok.claims.kind = "not_base64" THEN None
  ELSE IF tok.claims.kind = "not_utf8" THEN Panicked
  ELSE IF tok.claims.kind # "claims" THEN None
  ELSE IF tok.claims.exp < now THEN None
  ELSE IF verify_with_key(tok, ServerKey) THEN tok.claims
  ELSE None

\* ------------------------------------------------------------- requests
\* The record of a handled request: the handler, the principal of its token
\* (0: the endpoint takes none), its id arguments (for a creation, the ids
\* gen_id returned) and the response.
Handled(op, p, a, b, resp) == [op |-> op, p |-> p, a |-> a, b |-> b, resp |-> resp]
\* A run records the requests of the handlers in scope.watch; of the other
\* handlers it records only that one of them ran.
Note(op, p, a, b, resp) ==
  IF op \in scope.watch THEN Handled(op, p, a, b, resp)
  ELSE Handled("other", 0, 0, 0, "none")

\* gen_id(): the next id of the generator, here the next of the type asked for.
Bound(kind) ==
  IF kind = "user" THEN MaxUsers
  ELSE IF kind = "group" THEN scope.groups ELSE scope.channels
gen_id(kind) ==
  /\ next_id[kind] <= Bound(kind)
  /\ next_id' = [next_id EXCEPT ![kind] = @ + 1]

\* let gid = gen_id(); ... let cid = gen_id();
gen_id2 ==
  /\ next_id["group"] <= Bound("group")
  /\ next_id["channel"] <= Bound("channel")
  /\ next_id' = [next_id EXCEPT !["group"] = @ + 1, !["channel"] = @ + 1]

\* The ids gen_id has returned for a user so far.
ever_users == 1..(next_id["user"] - 1)
\* The principal of an authenticated request is one api_checker accepts the
\* token of: a user who logged in.  login changes nothing in the store and
\* no token is revoked, so every user ever created, deleted or not, can
\* hold one.
Principals == ever_users
\* The id arguments of a request.
UserArgs == ever_users
GroupArgs == 1..scope.groups
ChannelArgs == 1..scope.channels
MsgArgs == MsgIds

\* --------------------------------------------------- gen_id, call by call
\* The request handlers that call gen_id at the same time, the calls each
\* makes, the ticks of the generator's clock and the size of its sequence.
Callers == 2
Calls == 2
MaxClock == 2
SeqMod == 2
CallerIds == 1..Callers
\* static STATE: Mutex<Option<Snowflake>> = Mutex::new(None), and where each
\* caller is: "out" of gen_id, "locked" (it holds the mutex), "read" (it is
\* inside generate, the generator's fields read), "done" (generate returned).
IdGenInit ==
  [lock |-> 0,
   snow |-> [some |-> FALSE, time |-> 0, seq |-> 0],
   clock |-> 0,
   pc |-> [c \in CallerIds |-> "out"],
   seen |-> [c \in CallerIds |-> [some |-> FALSE, time |-> 0, seq |-> 0]],
   ret |-> [c \in CallerIds |-> 0],
   got |-> [c \in CallerIds |-> <<>>]]
\* get_or_insert_with(|| Snowflake::default())
get_or_insert_with(snow) ==
  IF snow.some THEN snow ELSE [some |-> TRUE, time |-> 0, seq |-> 0]
\* Snowflake::generate: the next sequence number within a tick of the clock,
\* sequence 0 in a new tick; when the sequence of a tick is used up it waits
\* for the next tick.
generate_waits(snow, now) ==
  now = snow.time /\ (snow.seq + 1) % SeqMod = 0
generate(snow, now) ==
  IF now = snow.time THEN [snow EXCEPT !.seq = (snow.seq + 1) % SeqMod]
  ELSE [snow EXCEPT !.time = now, !.seq = 0]
snowflake_id(snow) == snow.time * SeqMod + snow.seq
\* A mutex that lets every caller in.
mutex_open(c) == TRUE
\* STATE.lock(): the mutex is free.
mutex_free(c) == idgen.lock = 0
\* STATE.lock().unwrap()
gen_id_lock(c) ==
  /\ idgen.pc[c] = "out"
  /\ Len(idgen.got[c]) < Calls
  /\ mutex_free(c)
  /\ idgen' = [idgen EXCEPT !.lock = c, !.pc[c] = "locked"]
  /\ UNCHANGED <<db, next_id, next_msg, last, scope, auth, run>>
\* .get_or_insert_with(..).generate(): the fields of the generator are read
gen_id_read(c) ==
  /\ idgen.pc[c] = "locked"
  /\ idgen' = [idgen EXCEPT !.snow = get_or_insert_with(@),
                            !.seen[c] = get_or_insert_with(idgen.snow),
                            !.pc[c] = "read"]
  /\ UNCHANGED <<db, next_id, next_msg, last, scope, auth, run>>
\* generate(): the fields are written and the id is returned
gen_id_write(c) ==
  /\ idgen.pc[c] = "read"
  /\ ~generate_waits(idgen.seen[c], idgen.clock)
  /\ LET snow == generate(idgen.seen[c], idgen.clock)
     IN idgen' = [idgen EXCEPT !.snow = snow,
                               !.ret[c] = snowflake_id(snow),
                               !.pc[c] = "done"]
  /\ UNCHANGED <<db, next_id, next_msg, last, scope, auth, run>>
\* The guard of the mutex is dropped and gen_id returns.
gen_id_return(c) ==
  /\ idgen.pc[c] = "done"
  /\ idgen' = [idgen EXCEPT !.lock = IF @ = c THEN 0 ELSE @,
                            !.got[c] = Append(@, idgen.ret[c]),
                            !.pc[c] = "out"]
  /\ UNCHANGED <<db, next_id, next_msg, last, scope, auth, run>>
\* The clock of the generator moves on.
gen_id_tick ==
  /\ idgen.clock < MaxClock
  /\ idgen' = [idgen EXCEPT !.clock = @ + 1]
  /\ UNCHANGED <<db, next_id, next_msg, last, scope, auth, run>>

\* The store returns Err at most MaxFaults times in a run.
MaxFaults == 1
\* The store after construction.
EmptyStore ==
  [users |-> <<>>,
   user_groups |-> [i \in UserIds |-> {}],
   user_dms |-> [i \in UserIds |-> {}],
   groups |-> <<>>, channels |-> <<>>, messages |-> <<>>]
\* The removal cascades that run at the same time.
Racers == 2
RacerIds == 1..Racers
\* No store call has failed and no cascade is under way: each request of
\* DELETE /group/members is "idle" (not made yet); then it is at the store
\* call on the "member" list, at the read of the channel "list", at the
\* store call on a "channel" of those still to do, at the store call on the
\* "index", and "done" ("panic" if a store call returned Err).  base is the
\* store when the first of them passed its checks.
RunInit ==
  [faults |-> 0,
   procs |-> [i \in RacerIds |-> [pc |-> "idle", p |-> 0, gid |-> 0, uid |-> 0, todo |-> {}]],
   base |-> EmptyStore]

Init0 ==
  /\ db = EmptyStore
  /\ next_id = [user |-> 1, group |-> 1, channel |-> 1]
  /\ next_msg = 1
  /\ last = Handled("other", 0, 0, 0, "none")
  /\ idgen = IdGenInit
  /\ auth = [now |-> 0, hash |-> "", body |-> NoToken,
             checked |-> [token |-> NoToken, at |-> 0, result |-> None]]
  /\ run = RunInit

\* What login answers, and the body of its success: a token of a day.
login_response(d, id, hash) ==
  IF HashLen(hash) # 64 THEN "BadRequest"
  ELSE IF ~valid_user(d, id) THEN "NotFound"
  ELSE IF ~hex_decode(db_get_user_hash(d, id)).ok \/ ~hex_decode(hash).ok
    THEN "Panic"
  ELSE IF hex_decode(db_get_user_hash(d, id)) # hex_decode(hash)
    THEN "Unauthorized"
  ELSE "Success"
login_body(d, id, hash, now) ==
  IF login_response(d, id, hash) = "Success"
    THEN sign_with_key(ServerKey, Claims(id, now + Day))
  ELSE NoToken
\* POST /login
login(id, hash) ==
  /\ UNCHANGED <<db, next_id, next_msg, scope, idgen, run>>
  /\ last' = Note("login", 0, id, 0, login_response(db, id, hash))
  /\ auth' = IF "login" \in scope.watch
               THEN [auth EXCEPT !.hash = hash,
                                 !.body = login_body(db, id, hash, auth.now)]
             ELSE auth

\* Local::now() moves on.
tick ==
  /\ auth.now < MaxNow
  /\ auth' = [auth EXCEPT !.now = @ + 1]
  /\ UNCHANGED <<db, next_id, next_msg, last, scope, idgen, run>>
\* The claims segments a client can put in the place of a token's own:
\* another user id, a later expiry, and texts that do not decode.
altered_claims(claims) ==
  {[kind |-> "not_base64"], [kind |-> "not_utf8"], [kind |-> "not_json"]}
    \cup (IF claims.kind = "claims"
            THEN {Claims(id, claims.exp) : id \in UserIds \ {claims.id}}
                   \cup {Claims(claims.id, claims.exp + 1)}
          ELSE {})
\* The tokens a client can present who holds the token tok of a login (or
\* none): tok, tok with its claims segment altered, tok with its signature
\* segment altered, tokens signed with another key, a text without a ".".
presented(tok) ==
  IF tok = NoToken
    THEN {sign_with_key(OtherKey, Claims(id, auth.now + Day)) : id \in UserIds}
  ELSE {tok, [tok EXCEPT !.parts = 1],
        [tok EXCEPT !.sig = Mac(ServerKey, [kind |-> "altered"])],
        sign_with_key(OtherKey, tok.claims)}
         \cup {[tok EXCEPT !.claims = c] : c \in altered_claims(tok.claims)}
\* A request with an Authorization header: api_checker runs on its token.
check_token(tok) ==
  /\ tok \in presented(auth.body)
  /\ auth' = [auth EXCEPT !.checked =
               [token |-> tok, at |-> auth.now, result |-> api_checker(tok, auth.now)]]
  /\ UNCHANGED <<db, next_id, next_msg, last, scope, idgen, run>>

\* POST /user
make_user(hash) ==
  /\ UNCHANGED <<next_msg, scope, idgen, auth, run>>
  /\ IF HashLen(hash) # 64
       THEN /\ last' = Note("make_user", 0, 0, 0, "BadRequest")
            /\ UNCHANGED <<db, next_id, next_msg>>
     ELSE /\ gen_id("user")
          /\ db' = LET id == next_id["user"]
                   IN db_create_user_dms(
                        db_create_user_groups(db_create_user(db, id, hash), id), id)
          /\ last' = Note("make_user", 0, next_id["user"], 0, "Success")

\* DELETE /user
delete_user(p) ==
  /\ p \in Principals
  /\ UNCHANGED <<scope, idgen, auth, run>>
  /\ db' = delete_user_db(db, p)
  /\ last' = Note("delete_user", p, 0, 0, "Success")
  /\ UNCHANGED <<next_id, next_msg>>

\* DELETE /user when a store call returns Err: the unwrap panics.
delete_user_fault(p) ==
  /\ p \in Principals
  /\ run.faults < MaxFaults
  /\ db' \in delete_user_interrupted(db, p)
  /\ last' = Note("delete_user", p, 0, 0, "Panic")
  /\ run' = [run EXCEPT !.faults = @ + 1]
  /\ UNCHANGED <<next_id, next_msg, scope, idgen, auth>>

\* DELETE /user/groups
leave_group(p, gid) ==
  /\ p \in Principals
  /\ UNCHANGED <<scope, idgen, auth, run>>
  /\ UNCHANGED <<next_id, next_msg>>
  /\ IF ~valid_group(db, gid)
       THEN /\ last' = Note("leave_group", p, gid, 0, "NotFound")
            /\ UNCHANGED db
     ELSE /\ db' = __remove_group_member(db, gid, p)
          /\ last' = Note("leave_group", p, gid, 0, "Success")

\* A get_group that tells a non-member that the group exists.
get_group_response_leaky(d, p, id) ==
  IF ~valid_group(d, id) THEN "NotFound"
  ELSE IF ~member_check(d, p, id) THEN "Unauthorized"
  ELSE "Success"
\* What get_group answers.
get_group_response(d, p, id) ==
  IF ~valid_group(d, id) \/ ~member_check(d, p, id) THEN "NotFound"
  ELSE "Success"
\* GET /group
get_group(p, id) ==
  /\ p \in Principals
  /\ UNCHANGED <<scope, idgen, auth, run>>
  /\ UNCHANGED <<db, next_id, next_msg>>
  /\ last' = Note("get_group", p, id, 0, get_group_response(db, p, id))

\* POST /group: gen_id is called before the name is looked at.
make_group(p, name) ==
  /\ p \in Principals
  /\ UNCHANGED <<scope, idgen, auth, run>>
  /\ UNCHANGED next_msg
  /\ IF name = ""
       THEN /\ gen_id("group")
            /\ last' = Note("make_group", p, 0, 0, "BadRequest")
            /\ UNCHANGED db
     ELSE /\ gen_id2
          /\ db' = make_group_db(db, p, next_id["group"], next_id["channel"], name)
          /\ last' = Note("make_group", p, next_id["group"], next_id["channel"], "Success")

\* POST /dm
make_dm(p, uid) ==
  /\ p \in Principals
  /\ UNCHANGED <<scope, idgen, auth, run>>
  /\ UNCHANGED next_msg
  /\ IF ~valid_user(db, uid)
       THEN /\ last' = Note("make_dm", p, uid, 0, "NotFound")
            /\ UNCHANGED <<db, next_id, next_msg>>
     ELSE /\ gen_id2
          /\ db' = make_dm_db(db, p, uid, next_id["group"], next_id["channel"])
          /\ last' = Note("make_dm", p, next_id["group"], uid, "Success")

\* PUT /group
update_group(p, id, name) ==
  /\ p \in Principals
  /\ UNCHANGED <<scope, idgen, auth, run>>
  /\ UNCHANGED <<next_id, next_msg>>
  /\ IF name = ""
       THEN /\ last' = Note("update_group", p, id, 0, "BadRequest")
            /\ UNCHANGED db
     ELSE IF ~valid_group(db, id)
       THEN /\ last' = Note("update_group", p, id, 0, "NotFound")
            /\ UNCHANGED db
     ELSE IF ~owner_check(db, p, id)
       THEN /\ last' = Note("update_group", p, id, 0, "Unauthorized")
            /\ UNCHANGED db
     ELSE /\ db' = db_update_group(db, id, name)
          /\ last' = Note("update_group", p, id, 0, "Success")

\* DELETE /group
delete_group(p, id) ==
  /\ p \in Principals
  /\ UNCHANGED <<scope, idgen, auth, run>>
  /\ UNCHANGED <<next_id, next_msg>>
  /\ IF ~valid_group(db, id)
       THEN /\ last' = Note("delete_group", p, id, 0, "NotFound")
            /\ UNCHANGED db
     ELSE IF ~owner_check(db, p, id)
       THEN /\ last' = Note("delete_group", p, id, 0, "Unauthorized")
            /\ UNCHANGED db
     ELSE /\ db' = delete_group_db(db, id)
          /\ last' = Note("delete_group", p, id, 0, "Success")

\* DELETE /group when a store call returns Err: the unwrap panics.
delete_group_fault(p, id) ==
  /\ p \in Principals
  /\ run.faults < MaxFaults
  /\ db' \in IF valid_group(db, id) /\ owner_check(db, p, id)
               THEN delete_group_interrupted(db, id)
             ELSE {db}
  /\ last' = Note("delete_group", p, id, 0, "Panic")
  /\ run' = [run EXCEPT !.faults = @ + 1]
  /\ UNCHANGED <<next_id, next_msg, scope, idgen, auth>>

\* PUT /group/members
add_group_member(p, gid, uid) ==
  /\ p \in Principals
  /\ UNCHANGED <<scope, idgen, auth, run>>
  /\ UNCHANGED <<next_id, next_msg>>
  /\ IF ~valid_group(db, gid)
       THEN /\ last' = Note("add_group_member", p, gid, uid, "NotFound")
            /\ UNCHANGED db
     ELSE IF ~add_member_check(db, p, gid)
       THEN /\ last' = Note("add_group_member", p, gid, uid, "Unauthorized")
            /\ UNCHANGED db
     ELSE /\ db' = add_group_member_db(db, gid, uid)
          /\ last' = Note("add_group_member", p, gid, uid, "Success")

\* DELETE /group/members
remove_group_member(p, gid, uid) ==
  /\ p \in Principals
  /\ UNCHANGED <<scope, idgen, auth, run>>
  /\ UNCHANGED <<next_id, next_msg>>
  /\ IF ~valid_group(db, gid) \/ ~valid_user(db, uid)
       THEN /\ last' = Note("remove_group_member", p, gid, uid, "NotFound")
            /\ UNCHANGED db
     ELSE IF ~remove_member_check(db, p, gid, uid)
       THEN /\ last' = Note("remove_group_member", p, gid, uid, "Unauthorized")
            /\ UNCHANGED db
     ELSE /\ db' = __remove_group_member(db, gid, uid)
          /\ last' = Note("remove_group_member", p, gid, uid, "Success")

\* DELETE /group/members when a store call returns Err: the unwrap panics.
remove_group_member_fault(p, gid, uid) ==
  /\ p \in Principals
  /\ run.faults < MaxFaults
  /\ db' \in IF /\ valid_group(db, gid) /\ valid_user(db, uid)
                /\ remove_member_check(db, p, gid, uid)
               THEN __remove_group_member_interrupted(db, gid, uid)
             ELSE {db}
  /\ last' = Note("remove_group_member", p, gid, uid, "Panic")
  /\ run' = [run EXCEPT !.faults = @ + 1]
  /\ UNCHANGED <<next_id, next_msg, scope, idgen, auth>>

\* No request of DELETE /group/members is under way or done.
quiet == \A i \in RacerIds : run.procs[i].pc = "idle"
\* DELETE /group/members, its checks passed: the cascade begins.  The
\* requests of a run are for the same group and user.
cascade_start(i, p, gid, uid) ==
  /\ p \in Principals
  /\ run.procs[i].pc = "idle"
  /\ valid_group(db, gid)
  /\ valid_user(db, uid)
  /\ remove_member_check(db, p, gid, uid)
  /\ \A j \in RacerIds :
       run.procs[j].pc # "idle" => run.procs[j].gid = gid /\ run.procs[j].uid = uid
  /\ run' = [run EXCEPT !.procs[i] = [pc |-> "member", p |-> p, gid |-> gid,
                                       uid |-> uid, todo |-> {}],
                        !.base = IF quiet THEN db ELSE @]
  /\ UNCHANGED <<db, next_id, next_msg, last, scope, idgen, auth>>
\* A cascade whose last store call leaves the user's index as it is.
cascade_store_no_index(d, r, c) ==
  IF r.pc = "member" THEN db_remove_group_member(d, r.gid, r.uid)
  ELSE IF r.pc = "channel" THEN db_remove_channel_member(d, c, r.uid)
  ELSE d
\* The store after the next store call of the cascade r (c: the channel it
\* takes next from its list).
cascade_store(d, r, c) ==
  IF r.pc = "member" THEN db_remove_group_member(d, r.gid, r.uid)
  ELSE IF r.pc = "channel" THEN db_remove_channel_member(d, c, r.uid)
  ELSE IF r.pc = "index" THEN db_remove_user_group(d, r.uid, r.gid)
  ELSE d
\* Where the cascade r is after that call.
cascade_pc(d, r, c) ==
  IF r.pc = "member" THEN "list"
  ELSE IF r.pc = "list"
    THEN (IF db_get_group_channels(d, r.gid) = {} THEN "index" ELSE "channel")
  ELSE IF r.pc = "channel" THEN (IF r.todo = {c} THEN "index" ELSE "channel")
  ELSE "done"
\* One store call of Api::__remove_group_member in the request i.
cascade_step(i, c) ==
  LET r == run.procs[i]
  IN /\ r.pc \in {"member", "list", "channel", "index"}
     /\ r.pc = "channel" => c \in r.todo
     /\ r.pc # "channel" => c = 0
     /\ db' = cascade_store(db, r, c)
     /\ run' = [run EXCEPT !.procs[i] =
                  [r EXCEPT !.pc = IF db_remove_fails(db, r.gid, r.uid) THEN "panic"
                                   ELSE cascade_pc(db, r, c),
                            !.todo = IF r.pc = "list" THEN db_get_group_channels(db, r.gid)
                                     ELSE r.todo \ {c}]]
     /\ UNCHANGED <<next_id, next_msg, last, scope, idgen, auth>>

\* PUT /group/members, its checks passed, store call by store call: the
\* request i is at the store call on the member list ("add_member"), at the
\* read of the channel list ("add_list"), at a channel of those still to do
\* ("add_channel": is_channel_private, then add_channel_member), at the
\* index ("add_index": is_group_dm, then add_user_group or add_user_dm),
\* and "added" when it is through.
add_start(i, p, gid, uid) ==
  /\ p \in Principals
  /\ run.procs[i].pc = "idle"
  /\ valid_group(db, gid)
  /\ add_member_check(db, p, gid)
  /\ \A j \in RacerIds :
       run.procs[j].pc # "idle" => run.procs[j].gid = gid /\ run.procs[j].uid = uid
  /\ run' = [run EXCEPT !.procs[i] = [pc |-> "add_member", p |-> p, gid |-> gid,
                                       uid |-> uid, todo |-> {}],
                        !.base = IF quiet THEN db ELSE @]
  /\ UNCHANGED <<db, next_id, next_msg, last, scope, idgen, auth>>
\* The store after the next store call of the addition r (c: the channel it
\* takes next from its list).
add_store(d, r, c) ==
  IF r.pc = "add_member" THEN db_add_group_member(d, r.gid, r.uid)
  ELSE IF r.pc = "add_channel"
    THEN (IF db_is_channel_private(d, c) THEN d ELSE db_add_channel_member(d, c, r.uid))
  ELSE IF r.pc = "add_index"
    THEN (IF ~db_is_group_dm(d, r.gid) THEN db_add_user_group(d, r.uid, r.gid)
          ELSE db_add_user_dm(d, r.uid, r.gid))
  ELSE d
\* Where the addition r is after that call.
add_pc(d, r, c) ==
  IF r.pc = "add_member" THEN "add_list"
  ELSE IF r.pc = "add_list"
    THEN (IF db_get_group_channels(d, r.gid) = {} THEN "add_index" ELSE "add_channel")
  ELSE IF r.pc = "add_channel" THEN (IF r.todo = {c} THEN "add_index" ELSE "add_channel")
  ELSE "added"
\* One store call of Api::add_group_member in the request i.
add_step(i, c) ==
  LET r == run.procs[i]
  IN /\ r.pc \in {"add_member", "add_list", "add_channel", "add_index"}
     /\ r.pc = "add_channel" => c \in r.todo
     /\ r.pc # "add_channel" => c = 0
     /\ db' = add_store(db, r, c)
     /\ run' = [run EXCEPT !.procs[i] =
                  [r EXCEPT !.pc = add_pc(db, r, c),
                            !.todo = IF r.pc = "add_list" THEN db_get_group_channels(db, r.gid)
                                     ELSE r.todo \ {c}]]
     /\ UNCHANGED <<next_id, next_msg, last, scope, idgen, auth>>

\* PUT /group/admin
add_group_admin(p, gid, uid) ==
  /\ p \in Principals
  /\ UNCHANGED <<scope, idgen, auth, run>>
  /\ UNCHANGED <<next_id, next_msg>>
  /\ IF ~valid_group(db, gid) \/ ~valid_user(db, uid)
       THEN /\ last' = Note("add_group_admin", p, gid, uid, "NotFound")
            /\ UNCHANGED db
     ELSE IF ~owner_check(db, p, gid)
       THEN /\ last' = Note("add_group_admin", p, gid, uid, "Unauthorized")
            /\ UNCHANGED db
     ELSE /\ db' = db_add_group_admin(db, gid, uid)
          /\ last' = Note("add_group_admin", p, gid, uid, "Success")

\* DELETE /group/admin
remove_group_admin(p, gid, uid) ==
  /\ p \in Principals
  /\ UNCHANGED <<scope, idgen, auth, run>>
  /\ UNCHANGED <<next_id, next_msg>>
  /\ IF ~valid_group(db, gid) \/ ~valid_user(db, uid)
       THEN /\ last' = Note("remove_group_admin", p, gid, uid, "NotFound")
            /\ UNCHANGED db
     ELSE IF ~owner_check(db, p, gid)
       THEN /\ last' = Note("remove_group_admin", p, gid, uid, "Unauthorized")
            /\ UNCHANGED db
     ELSE /\ db' = db_remove_group_admin(db, gid, uid)
          /\ last' = Note("remove_group_admin", p, gid, uid, "Success")

\* POST /group/channels
make_channel(p, gid, name) ==
  /\ p \in Principals
  /\ UNCHANGED <<scope, idgen, auth, run>>
  /\ UNCHANGED next_msg
  /\ IF name = ""
       THEN /\ last' = Note("make_channel", p, gid, 0, "BadRequest")
            /\ UNCHANGED <<db, next_id>>
     ELSE IF ~valid_group(db, gid)
       THEN /\ last' = Note("make_channel", p, gid, 0, "NotFound")
            /\ UNCHANGED <<db, next_id>>
     ELSE IF ~admin_check(db, p, gid)
       THEN /\ last' = Note("make_channel", p, gid, 0, "Unauthorized")
            /\ UNCHANGED <<db, next_id>>
     ELSE /\ gen_id("channel")
          /\ db' = LET cid == next_id["channel"]
                   IN db_add_group_channel(db_create_channel(db, cid, gid, p, name), gid, cid)
          /\ last' = Note("make_channel", p, gid, next_id["channel"], "Success")

\* PUT /channel
update_channel(p, id, name) ==
  /\ p \in Principals
  /\ UNCHANGED <<scope, idgen, auth, run>>
  /\ UNCHANGED <<next_id, next_msg>>
  /\ IF ~valid_channel(db, id)
       THEN /\ last' = Note("update_channel", p, id, 0, "NotFound")
            /\ UNCHANGED db
     ELSE IF ~admin_check(db, p, db.channels[id].group)
       THEN /\ last' = Note("update_channel", p, id, 0, "Unauthorized")
            /\ UNCHANGED db
     ELSE /\ db' = db_update_channel(db, id, name)
          /\ last' = Note("update_channel", p, id, 0, "Success")

\* PUT /channel/private
make_channel_private(p, id, val) ==
  /\ p \in Principals
  /\ UNCHANGED <<scope, idgen, auth, run>>
  /\ UNCHANGED <<next_id, next_msg>>
  /\ IF ~valid_channel(db, id)
       THEN /\ last' = Note("make_channel_private", p, id, 0, "NotFound")
            /\ UNCHANGED db
     ELSE IF ~admin_check(db, p, db.channels[id].group)
       THEN /\ last' = Note("make_channel_private", p, id, 0, "Unauthorized")
            /\ UNCHANGED db
     ELSE /\ db' = db_set_channel_private(db, id, val)
          /\ last' = Note("make_channel_private", p, id, 0, "Success")

\* What get_channel answers.
get_channel_response(d, p, id) ==
  IF ~valid_channel(d, id) \/ ~channel_member_check(d, p, id) THEN "NotFound"
  ELSE "Success"
\* GET /channel
get_channel(p, id) ==
  /\ p \in Principals
  /\ UNCHANGED <<scope, idgen, auth, run>>
  /\ UNCHANGED <<db, next_id, next_msg>>
  /\ last' = Note("get_channel", p, id, 0, get_channel_response(db, p, id))

\* DELETE /channel
delete_channel(p, id) ==
  /\ p \in Principals
  /\ UNCHANGED <<scope, idgen, auth, run>>
  /\ UNCHANGED <<next_id, next_msg>>
  /\ IF ~valid_channel(db, id)
       THEN /\ last' = Note("delete_channel", p, id, 0, "NotFound")
            /\ UNCHANGED db
     ELSE IF ~admin_check(db, p, db.channels[id].group)
       THEN /\ last' = Note("delete_channel", p, id, 0, "Unauthorized")
            /\ UNCHANGED db
     ELSE /\ db' = db_delete_channel(
                     db_remove_group_channel(db, db.channels[id].group, id), id)
          /\ last' = Note("delete_channel", p, id, 0, "Success")

\* PUT /channel/members
add_channel_member(p, cid, uid) ==
  /\ p \in Principals
  /\ UNCHANGED <<scope, idgen, auth, run>>
  /\ UNCHANGED <<next_id, next_msg>>
  /\ IF ~valid_channel(db, cid) \/ ~valid_user(db, uid)
       THEN /\ last' = Note("add_channel_member", p, cid, uid, "NotFound")
            /\ UNCHANGED db
     ELSE IF ~admin_check(db, p, db.channels[cid].group)
       THEN /\ last' = Note("add_channel_member", p, cid, uid, "Unauthorized")
            /\ UNCHANGED db
     ELSE /\ db' = db_add_channel_member(db, cid, uid)
          /\ last' = Note("add_channel_member", p, cid, uid, "Success")

\* DELETE /channel/members
remove_channel_member(p, cid, uid) ==
  /\ p \in Principals
  /\ UNCHANGED <<scope, idgen, auth, run>>
  /\ UNCHANGED <<next_id, next_msg>>
  /\ IF ~valid_channel(db, cid) \/ ~valid_user(db, uid)
       THEN /\ last' = Note("remove_channel_member", p, cid, uid, "NotFound")
            /\ UNCHANGED db
     ELSE IF ~admin_check(db, p, db.channels[cid].group)
       THEN /\ last' = Note("remove_channel_member", p, cid, uid, "Unauthorized")
            /\ UNCHANGED db
     ELSE /\ db' = db_remove_channel_member(db, cid, uid)
          /\ last' = Note("remove_channel_member", p, cid, uid, "Success")

\* members.iter().map(|m| self.db.get_user(*m).unwrap()): the users of a
\* member list; the unwrap panics for a member whose user record is gone.
members_response(d, members) ==
  IF \E x \in members : db_get_user_fails(d, x) THEN "Panic" ELSE "Success"
\* What the listings answer.  None of them looks at the principal auth.
get_group_members_response(d, p, id) ==
  IF ~valid_group(d, id) THEN "NotFound"
  ELSE members_response(d, db_get_group_members(d, id))
get_channel_members_response(d, p, id) ==
  members_response(d, db_get_channel_members(d, id))
search_channel_response(d, p, cid) ==
  IF ~valid_channel(d, cid) THEN "NotFound" ELSE "Success"
get_channel_messages_response(d, p, cid) ==
  IF ~valid_channel(d, cid) THEN "NotFound" ELSE "Success"

\* GET /group/members
get_group_members(p, id) ==
  /\ p \in Principals
  /\ UNCHANGED <<db, next_id, next_msg, scope, idgen, auth, run>>
  /\ last' = Note("get_group_members", p, id, 0, get_group_members_response(db, p, id))

\* GET /channel/members: the channel id is not checked.
get_channel_members(p, id) ==
  /\ p \in Principals
  /\ UNCHANGED <<db, next_id, next_msg, scope, idgen, auth, run>>
  /\ last' = Note("get_channel_members", p, id, 0, get_channel_members_response(db, p, id))

\* GET /channel/term: the messages of the channel that hold the term.
search_channel(p, cid) ==
  /\ p \in Principals
  /\ UNCHANGED <<db, next_id, next_msg, scope, idgen, auth, run>>
  /\ last' = Note("search_channel", p, cid, 0, search_channel_response(db, p, cid))

\* GET /channel/messages
get_channel_messages(p, cid) ==
  /\ p \in Principals
  /\ UNCHANGED <<db, next_id, next_msg, scope, idgen, auth, run>>
  /\ last' = Note("get_channel_messages", p, cid, 0,
                  get_channel_messages_response(db, p, cid))

\* A make_thread that answers Success whatever set_thread returned.
set_thread_response_ignored(d, mid) == "Success"
\* self.db.set_thread(id.0, tid).unwrap(): an Err is the panic of the
\* handler, after the thread channel was created and made private.
set_thread_response(d, mid) ==
  IF db_set_thread_fails(d, mid) THEN "Panic" ELSE "Success"
\* PUT /message/thread: gen_id is called before the message's channel is
\* read; get_channel of a deleted channel is an Err, which the unwrap turns
\* into a panic of the handler.
make_thread(p, id, name) ==
  /\ p \in Principals
  /\ UNCHANGED <<scope, idgen, auth, run>>
  /\ UNCHANGED next_msg
  /\ IF name = ""
       THEN /\ last' = Note("make_thread", p, id, 0, "BadRequest")
            /\ UNCHANGED <<db, next_id>>
     ELSE IF ~valid_message(db, id)
       THEN /\ last' = Note("make_thread", p, id, 0, "NotFound")
            /\ UNCHANGED <<db, next_id>>
     ELSE IF ~valid_channel(db, db.messages[id].channel)
       THEN /\ gen_id("channel")
            /\ last' = Note("make_thread", p, id, 0, "Panic")
            /\ UNCHANGED db
     ELSE /\ gen_id("channel")
          /\ db' = make_thread_db(db, p, id, next_id["channel"], name)
          /\ last' = Note("make_thread", p, id, next_id["channel"],
                          set_thread_response(db, id))

\* DELETE /message
delete_message(p, id) ==
  /\ p \in Principals
  /\ UNCHANGED <<scope, idgen, auth, run>>
  /\ UNCHANGED <<next_id, next_msg>>
  /\ IF ~valid_message(db, id)
       THEN /\ last' = Note("delete_message", p, id, 0, "NotFound")
            /\ UNCHANGED db
     ELSE IF ~valid_channel(db, db.messages[id].channel)
       THEN /\ last' = Note("delete_message", p, id, 0, "Panic")
            /\ UNCHANGED db
     ELSE IF /\ db.messages[id].author # p
             /\ ~admin_check(db, p, db.channels[db.messages[id].channel].group)
       THEN /\ last' = Note("delete_message", p, id, 0, "Unauthorized")
            /\ UNCHANGED db
     ELSE /\ db' = db_delete_message(db, id)
          /\ last' = Note("delete_message", p, id, 0, "Success")

\* The messaging service stores a message a member of a channel sent to it.
post_message(cid, author) ==
  /\ next_msg <= MaxMsgs
  /\ valid_channel(db, cid)
  /\ valid_user(db, author)
  /\ author \in db_get_channel_members(db, cid)
  /\ db' = [db EXCEPT !.messages = Put(@, next_msg,
              [channel |-> cid, author |-> author, thread |-> 0])]
  /\ next_msg' = next_msg + 1
  /\ last' = Note("post_message", author, cid, next_msg, "Success")
  /\ UNCHANGED <<next_id, scope, idgen, auth, run>>

UserOps ==
  \/ \E id \in UserArgs, hash \in Hashes : login(id, hash)
  \/ \E hash \in Hashes : make_user(hash)
  \/ \E p \in Principals : delete_user(p)

GroupOps ==
  \/ \E p \in Principals, gid \in GroupArgs : leave_group(p, gid)
  \/ \E p \in Principals, id \in GroupArgs : get_group(p, id)
  \/ \E p \in Principals, name \in Names : make_group(p, name)
  \/ \E p \in Principals, uid \in UserArgs : make_dm(p, uid)
  \/ \E p \in Principals, id \in GroupArgs, name \in Names : update_group(p, id, name)
  \/ \E p \in Principals, id \in GroupArgs : delete_group(p, id)
  \/ \E p \in Principals, gid \in GroupArgs, uid \in UserArgs : add_group_member(p, gid, uid)
  \/ \E p \in Principals, gid \in GroupArgs, uid \in UserArgs : remove_group_member(p, gid, uid)
  \/ \E p \in Principals, gid \in GroupArgs, uid \in UserArgs : add_group_admin(p, gid, uid)
  \/ \E p \in Principals, gid \in GroupArgs, uid \in UserArgs : remove_group_admin(p, gid, uid)
  \/ \E p \in Principals, id \in GroupArgs : get_group_members(p, id)

ChannelOps ==
  \/ \E p \in Principals, gid \in GroupArgs, name \in Names : make_channel(p, gid, name)
  \/ \E p \in Principals, id \in ChannelArgs, name \in Renames : update_channel(p, id, name)
  \/ \E p \in Principals, id \in ChannelArgs, val \in BOOLEAN : make_channel_private(p, id, val)
  \/ \E p \in Principals, id \in ChannelArgs : get_channel(p, id)
  \/ \E p \in Principals, id \in ChannelArgs : delete_channel(p, id)
  \/ \E p \in Principals, cid \in ChannelArgs, uid \in UserArgs : add_channel_member(p, cid, uid)
  \/ \E p \in Principals, cid \in ChannelArgs, uid \in UserArgs : remove_channel_member(p, cid, uid)
  \/ \E p \in Principals, id \in ChannelArgs : get_channel_members(p, id)
  \/ \E p \in Principals, cid \in ChannelArgs : search_channel(p, cid)
  \/ \E p \in Principals, cid \in ChannelArgs : get_channel_messages(p, cid)

MessageOps ==
  \/ \E p \in Principals, id \in MsgArgs, name \in Names : make_thread(p, id, name)
  \/ \E p \in Principals, id \in MsgArgs : delete_message(p, id)
  \/ \E cid \in ChannelArgs, author \in UserArgs : post_message(cid, author)

\* The requests on users, groups and channels.
NextGraph == UserOps \/ GroupOps \/ ChannelOps
\* The requests on users, groups, channels and messages, and the messaging
\* service.
Next == NextGraph \/ MessageOps

\* ------------------------------------------------------- specifications
\* What a run starts with: an empty store, the handlers it records (watch),
\* and how many group and channel ids gen_id hands out in it.
InitScope(watch, groups, channels) ==
  /\ Init0
  /\ scope = [watch |-> watch, groups |-> groups, channels |-> channels,
              hashes |-> CoreHashes]

\* gen_id hands out one group id and one channel id.
CoreGroups == 1
CoreChannels == 1

\* Every handler, one group, one channel; no request is recorded.
Init == InitScope({}, CoreGroups, CoreChannels)
Spec == Init /\ [][Next]_vars

\* Every handler, one group, one channel; the removals are recorded.
InitRemove == InitScope({"remove_group_member"}, CoreGroups, CoreChannels)
SpecRemove == InitRemove /\ [][NextGraph]_vars

\* Every handler but the message ones; the additions are recorded.
InitAdd == InitScope({"add_group_member"}, CoreGroups, CoreChannels)
SpecAdd == InitAdd /\ [][NextGraph]_vars

\* Every handler but the message ones; the deletions of users are recorded.
InitDelete == InitScope({"delete_user"}, CoreGroups, CoreChannels)
SpecDelete == InitDelete /\ [][NextGraph]_vars

\* A group with a thread: one group, its main channel and one more channel
\* id, the requests that make and unmake members, messages and threads.
ThreadChannels == 2
NextThreads ==
  \/ \E hash \in Hashes : make_user(hash)
  \/ \E p \in Principals : delete_user(p)
  \/ \E p \in Principals, name \in Names : make_group(p, name)
  \/ \E p \in Principals, id \in GroupArgs : delete_group(p, id)
  \/ \E p \in Principals, gid \in GroupArgs, uid \in UserArgs : add_group_member(p, gid, uid)
  \/ \E p \in Principals, gid \in GroupArgs, uid \in UserArgs : remove_group_member(p, gid, uid)
  \/ \E p \in Principals, gid \in GroupArgs : leave_group(p, gid)
  \/ \E p \in Principals, id \in ChannelArgs, val \in BOOLEAN : make_channel_private(p, id, val)
  \/ \E p \in Principals, cid \in ChannelArgs, uid \in UserArgs : add_channel_member(p, cid, uid)
  \/ \E p \in Principals, id \in MsgArgs, name \in Names : make_thread(p, id, name)
  \/ \E p \in Principals, id \in MsgArgs : delete_message(p, id)
  \/ \E cid \in ChannelArgs, author \in UserArgs : post_message(cid, author)
InitThreads ==
  InitScope({"remove_group_member", "delete_group"}, CoreGroups, ThreadChannels)
SpecThreads == InitThreads /\ [][NextThreads]_vars

\* Callers of gen_id, each inside a request handler, in every interleaving.
NextGenId ==
  \/ \E c \in CallerIds : gen_id_lock(c)
  \/ \E c \in CallerIds : gen_id_read(c)
  \/ \E c \in CallerIds : gen_id_write(c)
  \/ \E c \in CallerIds : gen_id_return(c)
  \/ gen_id_tick
InitGenId == InitScope({}, CoreGroups, CoreChannels)
SpecGenId == InitGenId /\ [][NextGenId]_vars

\* Users, logins with every kind of hash, the clock, and tokens checked.
NextLogin ==
  \/ \E hash \in Hashes : make_user(hash)
  \/ \E p \in Principals : delete_user(p)
  \/ \E id \in UserIds, hash \in Hashes : login(id, hash)
  \/ tick
  \/ \E tok \in presented(auth.body) : check_token(tok)
InitLogin ==
  /\ Init0
  /\ scope = [watch |-> {"login"}, groups |-> CoreGroups, channels |-> CoreChannels,
              hashes |-> AllHashes]
SpecLogin == InitLogin /\ [][NextLogin]_vars

\* The handlers that ask for a role: of the owner, of an admin, of the
\* author of a message or an admin.
OwnerGated == {"update_group", "delete_group", "add_group_admin", "remove_group_admin"}
AdminGated ==
  {"add_group_member", "remove_group_member", "make_channel", "update_channel",
   "make_channel_private", "delete_channel", "add_channel_member",
   "remove_channel_member"}
AuthorGated == {"delete_message"}
\* Users, a group, a message, and every handler that asks for a role.
NextGate ==
  \/ \E hash \in CoreHashes : make_user(hash)
  \/ \E p \in Principals : delete_user(p)
  \/ \E p \in Principals, name \in Names : make_group(p, name)
  \/ \E p \in Principals, id \in GroupArgs, name \in Names : update_group(p, id, name)
  \/ \E p \in Principals, id \in GroupArgs : delete_group(p, id)
  \/ \E p \in Principals, gid \in GroupArgs, uid \in UserArgs : add_group_member(p, gid, uid)
  \/ \E p \in Principals, gid \in GroupArgs, uid \in UserArgs : remove_group_member(p, gid, uid)
  \/ \E p \in Principals, gid \in GroupArgs, uid \in UserArgs : add_group_admin(p, gid, uid)
  \/ \E p \in Principals, gid \in GroupArgs, uid \in UserArgs : remove_group_admin(p, gid, uid)
  \/ \E p \in Principals, gid \in GroupArgs, name \in Names : make_channel(p, gid, name)
  \/ \E p \in Principals, id \in ChannelArgs, name \in Renames : update_channel(p, id, name)
  \/ \E p \in Principals, id \in ChannelArgs, val \in BOOLEAN : make_channel_private(p, id, val)
  \/ \E p \in Principals, id \in ChannelArgs : delete_channel(p, id)
  \/ \E p \in Principals, cid \in ChannelArgs, uid \in UserArgs : add_channel_member(p, cid, uid)
  \/ \E p \in Principals, cid \in ChannelArgs, uid \in UserArgs : remove_channel_member(p, cid, uid)
  \/ \E p \in Principals, id \in MsgArgs : delete_message(p, id)
  \/ \E cid \in ChannelArgs, author \in UserArgs : post_message(cid, author)
InitGate ==
  InitScope(OwnerGated \cup AdminGated \cup AuthorGated, CoreGroups, CoreChannels)
SpecGate == InitGate /\ [][NextGate]_vars

\* Every handler but the message ones; the views are recorded.
InitGet == InitScope({"get_group", "get_channel"}, CoreGroups, CoreChannels)
SpecGet == InitGet /\ [][NextGraph]_vars

\* Two groups: the requests that make and unmake groups and members.
PairGroups == 2
PairChannels == 2
NextPair ==
  \/ \E hash \in Hashes : make_user(hash)
  \/ \E p \in Principals : delete_user(p)
  \/ \E p \in Principals, name \in Names : make_group(p, name)
  \/ \E p \in Principals, uid \in UserArgs : make_dm(p, uid)
  \/ \E p \in Principals, id \in GroupArgs : delete_group(p, id)
  \/ \E p \in Principals, gid \in GroupArgs, uid \in UserArgs : add_group_member(p, gid, uid)
  \/ \E p \in Principals, gid \in GroupArgs, uid \in UserArgs : remove_group_member(p, gid, uid)
  \/ \E p \in Principals, gid \in GroupArgs : leave_group(p, gid)
  \/ \E p \in Principals, id \in ChannelArgs, val \in BOOLEAN : make_channel_private(p, id, val)
InitPair == InitScope({"make_group"}, PairGroups, PairChannels)
SpecPair == InitPair /\ [][NextPair]_vars

\* Groups, members and channels, and the three cascades, each of them also
\* with a store call that fails.
NextFault ==
  \/ \E hash \in CoreHashes : make_user(hash)
  \/ \E p \in Principals : delete_user(p)
  \/ \E p \in Principals : delete_user_fault(p)
  \/ \E p \in Principals, name \in Names : make_group(p, name)
  \/ \E p \in Principals, uid \in UserArgs : make_dm(p, uid)
  \/ \E p \in Principals, id \in GroupArgs : delete_group(p, id)
  \/ \E p \in Principals, id \in GroupArgs : delete_group_fault(p, id)
  \/ \E p \in Principals, gid \in GroupArgs, uid \in UserArgs : add_group_member(p, gid, uid)
  \/ \E p \in Principals, gid \in GroupArgs, uid \in UserArgs : add_group_admin(p, gid, uid)
  \/ \E p \in Principals, gid \in GroupArgs, uid \in UserArgs : remove_group_member(p, gid, uid)
  \/ \E p \in Principals, gid \in GroupArgs, uid \in UserArgs :
        remove_group_member_fault(p, gid, uid)
  \/ \E p \in Principals, gid \in GroupArgs, name \in Names : make_channel(p, gid, name)
InitFault ==
  InitScope({"delete_user", "delete_group", "remove_group_member"},
            CoreGroups, ThreadChannels)
SpecFault == InitFault /\ [][NextFault]_vars

\* A group with members and channels is set up; then removals of one member
\* run at the same time, their store calls in every order.
NextRace ==
  \/ quiet /\ \E hash \in CoreHashes : make_user(hash)
  \/ quiet /\ \E p \in Principals, name \in Names : make_group(p, name)
  \/ quiet /\ \E p \in Principals, gid \in GroupArgs, uid \in UserArgs :
                 add_group_member(p, gid, uid)
  \/ quiet /\ \E p \in Principals, gid \in GroupArgs, uid \in UserArgs :
                 add_group_admin(p, gid, uid)
  \/ quiet /\ \E p \in Principals, gid \in GroupArgs, name \in Names :
                 make_channel(p, gid, name)
  \/ \E i \in RacerIds, p \in Principals, gid \in GroupArgs, uid \in UserArgs :
        cascade_start(i, p, gid, uid)
  \/ \E i \in RacerIds, c \in {0} \cup ChannelArgs : cascade_step(i, c)
InitRace == InitScope({}, CoreGroups, ThreadChannels)
SpecRace == InitRace /\ [][NextRace]_vars

\* A group, a message in its main channel, and two more channel ids for
\* the threads asked for on the message.
SetOnceChannels == 3
NextSetOnce ==
  \/ \E hash \in CoreHashes : make_user(hash)
  \/ \E p \in Principals, name \in Names : make_group(p, name)
  \/ \E p \in Principals, gid \in GroupArgs, uid \in UserArgs : add_group_member(p, gid, uid)
  \/ \E p \in Principals, gid \in GroupArgs : leave_group(p, gid)
  \/ \E p \in Principals, id \in ChannelArgs : delete_channel(p, id)
  \/ \E p \in Principals, id \in MsgArgs, name \in Names : make_thread(p, id, name)
  \/ \E p \in Principals, id \in MsgArgs : delete_message(p, id)
  \/ \E cid \in ChannelArgs, author \in UserArgs : post_message(cid, author)
InitSetOnce == InitScope({"make_thread"}, CoreGroups, SetOnceChannels)
SpecSetOnce == InitSetOnce /\ [][NextSetOnce]_vars

\* The listings of members and messages, with the requests that make and
\* unmake members and messages.
Listings ==
  {"get_group_members", "get_channel_members", "search_channel", "get_channel_messages"}
NextList ==
  \/ \E hash \in CoreHashes : make_user(hash)
  \/ \E p \in Principals : delete_user(p)
  \/ \E p \in Principals, name \in Names : make_group(p, name)
  \/ \E p \in Principals, gid \in GroupArgs, uid \in UserArgs : add_group_member(p, gid, uid)
  \/ \E p \in Principals, gid \in GroupArgs : leave_group(p, gid)
  \/ \E p \in Principals, cid \in ChannelArgs, uid \in UserArgs : remove_channel_member(p, cid, uid)
  \/ \E p \in Principals, id \in MsgArgs : delete_message(p, id)
  \/ \E cid \in ChannelArgs, author \in UserArgs : post_message(cid, author)
  \/ \E p \in Principals, id \in GroupArgs : get_group_members(p, id)
  \/ \E p \in Principals, id \in ChannelArgs : get_channel_members(p, id)
  \/ \E p \in Principals, cid \in ChannelArgs : search_channel(p, cid)
  \/ \E p \in Principals, cid \in ChannelArgs : get_channel_messages(p, cid)
InitList == InitScope(Listings, CoreGroups, CoreChannels)
SpecList == InitList /\ [][NextList]_vars

\* A group with members and channels is set up; then an addition and a
\* removal of one user run at the same time, their store calls in every
\* order.
NextMix ==
  \/ quiet /\ \E hash \in CoreHashes : make_user(hash)
  \/ quiet /\ \E p \in Principals, name \in Names : make_group(p, name)
  \/ quiet /\ \E p \in Principals, gid \in GroupArgs, uid \in UserArgs :
                 add_group_member(p, gid, uid)
  \/ quiet /\ \E p \in Principals, gid \in GroupArgs, name \in Names :
                 make_channel(p, gid, name)
  \/ \E i \in RacerIds, p \in Principals, gid \in GroupArgs, uid \in UserArgs :
        cascade_start(i, p, gid, uid)
  \/ \E i \in RacerIds, c \in {0} \cup ChannelArgs : cascade_step(i, c)
  \/ \E i \in RacerIds, p \in Principals, gid \in GroupArgs, uid \in UserArgs :
        add_start(i, p, gid, uid)
  \/ \E i \in RacerIds, c \in {0} \cup ChannelArgs : add_step(i, c)
InitMix == InitScope({}, CoreGroups, ThreadChannels)
SpecMix == InitMix /\ [][NextMix]_vars

\* A group made by an existing user, a message, and the requests that put
\* users into and take them out of groups and channels.
NextMembers ==
  \/ \E hash \in CoreHashes : make_user(hash)
  \/ \E p \in Principals, name \in Names : valid_user(db, p) /\ make_group(p, name)
  \/ \E cid \in ChannelArgs, author \in UserArgs : post_message(cid, author)
  \/ \E p \in Principals, cid \in ChannelArgs, uid \in UserArgs : add_channel_member(p, cid, uid)
  \/ \E p \in Principals, gid \in GroupArgs, uid \in UserArgs : add_group_member(p, gid, uid)
  \/ \E p \in Principals, id \in MsgArgs, name \in Names : make_thread(p, id, name)
  \/ \E p \in Principals, gid \in GroupArgs : leave_group(p, gid)
  \/ \E p \in Principals, gid \in GroupArgs, uid \in UserArgs : remove_group_member(p, gid, uid)
  \/ \E p \in Principals : delete_user(p)
InitMembers == InitScope({}, CoreGroups, ThreadChannels)
SpecMembers == InitMembers /\ [][NextMembers]_vars

\* ------------------------------------------------------------- properties
Groups == DOMAIN db.groups
Channels == DOMAIN db.channels
Users == DOMAIN db.users
\* The channels whose parent group is gid.
channels_of(d, gid) == {c \in DOMAIN d.channels : d.channels[c].group = gid}

\* C1: in every reachable state the owner of every existing group is one of
\* the group's members.
C1_OwnerIsMember == \A g \in Groups : db.groups[g].owner \in db.groups[g].members

\* C2: remove_group_member(gid, uid) with uid the owner of the existing group
\* gid is denied whoever asks: Unauthorized (NotFound when the owner's user
\* record is gone), and the store is left as it was.
C2_RemoveOwnerDenied ==
  [][(/\ last'.op = "remove_group_member"
      /\ valid_group(db, last'.a)
      /\ db_get_group_owner(db, last'.a) = last'.b)
     => /\ last'.resp = IF valid_user(db, last'.b) THEN "Unauthorized" ELSE "NotFound"
        /\ db' = db]_vars

\* An admin of the group who is not its owner asked for the owner's removal
\* and was refused.
C2_Witness ==
  /\ last.op = "remove_group_member"
  /\ last.resp = "Unauthorized"
  /\ valid_group(db, last.a)
  /\ db_get_group_owner(db, last.a) = last.b
  /\ last.p # last.b
  /\ admin_check(db, last.p, last.a)
  /\ last.b \in db_get_group_members(db, last.a)

\* C3: a principal who passes the owner check of a group passes the admin
\* checks and the member check of that group.
C3_RoleMonotone ==
  \A p \in Principals : \A g \in Groups :
    owner_check(db, p, g) =>
      /\ admin_check(db, p, g)
      /\ add_member_check(db, p, g)
      /\ member_check(db, p, g)

\* C4: the remove-group-member cascade is idempotent: run again for the same
\* (gid, uid) after it ran fully or in part, it raises no error and leaves
\* the store as one complete run leaves it.
C4_CascadeIdempotent ==
  \A gid \in GroupArgs : \A uid \in UserArgs :
    \A q \in __remove_group_member_partial(db, gid, uid) :
      /\ ~__remove_group_member_fails(q, gid, uid)
      /\ __remove_group_member(q, gid, uid) = __remove_group_member(db, gid, uid)

\* A removal went through, for a user who is in the group's channel list no
\* more, and the group and its channel are there.
C4_Witness ==
  /\ last.op = "remove_group_member"
  /\ last.resp = "Success"
  /\ valid_group(db, last.a)
  /\ db_get_group_channels(db, last.a) # {}
  /\ \E u \in db_get_group_members(db, last.a) \ {last.b} :
       \E c \in db_get_group_channels(db, last.a) : u \in db_get_channel_members(db, c)
  /\ __remove_group_member(db, last.a, last.b) = db

\* C5: the reverse indices agree with the member lists: a user is a member
\* of an existing group exactly when the group is in the user's group index
\* (DM index for a DM), and an index holds no id of a group that is gone.
C5_IndexAgrees ==
  \A u \in Users :
    /\ \A g \in Groups :
         u \in db.groups[g].members <=>
           g \in (IF db.groups[g].is_dm THEN db.user_dms[u] ELSE db.user_groups[u])
    /\ db.user_groups[u] \cup db.user_dms[u] \subseteq Groups

\* C6: after remove_group_member(gid, B) succeeds, B is in no member list of
\* the group: not the group's, not that of any channel whose parent group is
\* gid (threads too), gid is not in B's group index, and the same removal
\* run again raises no error and changes nothing.
C6_RemovedEverywhere ==
  (last.op = "remove_group_member" /\ last.resp = "Success") =>
    /\ last.b \notin db_get_group_members(db, last.a)
    /\ \A c \in channels_of(db, last.a) : last.b \notin db.channels[c].members
    /\ last.a \notin db.user_groups[last.b]
    /\ ~__remove_group_member_fails(db, last.a, last.b)
    /\ __remove_group_member(db, last.a, last.b) = db

\* C7: after delete_user by u the user record is gone, u is in the member
\* list of no group, DM or channel, and u's group index and DM index are
\* empty.
C7_DeletedEverywhere ==
  last.op = "delete_user" =>
    /\ last.p \notin Users
    /\ \A g \in Groups : last.p \notin db.groups[g].members
    /\ \A c \in Channels : last.p \notin db.channels[c].members
    /\ db.user_groups[last.p] = {}
    /\ db.user_dms[last.p] = {}

\* C8: delete_group(gid) of an existing group by another than its owner is
\* Unauthorized and changes nothing; by the owner it succeeds, and then the
\* group is gone, no channel has gid as its parent group, and no index of a
\* former member holds gid.
C8_DeleteGroup ==
  [][(last'.op = "delete_group" /\ valid_group(db, last'.a)) =>
       IF db_get_group_owner(db, last'.a) # last'.p
         THEN last'.resp = "Unauthorized" /\ db' = db
       ELSE /\ last'.resp = "Success"
            /\ ~valid_group(db', last'.a)
            /\ channels_of(db', last'.a) = {}
            /\ \A u \in db.groups[last'.a].members :
                 last'.a \notin db'.user_groups[u] \cup db'.user_dms[u]]_vars

C10_MakeGroup ==
  [][(last'.op = "make_group" /\ last'.resp = "Success") =>
       LET A == last'.p
           g == last'.a
           c == last'.b
       IN /\ ~valid_group(db, g) /\ ~valid_channel(db, c)
          /\ db'.groups[g].owner = A
          /\ db'.groups[g].members = {A}
          /\ db'.groups[g].admin = {A}
          /\ db'.groups[g].name # ""
          /\ db'.groups[g].is_dm = FALSE
          /\ db'.groups[g].channels = {c}
          /\ channels_of(db', g) = {c}
          /\ db'.channels[c] =
               [group |-> g, name |-> "main", members |-> {A}, private |-> FALSE]
          /\ g \in db'.user_groups[A]
          /\ DOMAIN db'.groups = DOMAIN db.groups \cup {g}
          /\ \A h \in DOMAIN db.groups : db'.groups[h] = db.groups[h]
          /\ DOMAIN db'.channels = DOMAIN db.channels \cup {c}
          /\ \A k \in DOMAIN db.channels : db'.channels[k] = db.channels[k]
          /\ db'.user_groups = [db.user_groups EXCEPT ![A] = @ \cup {g}]
          /\ db'.user_dms = db.user_dms
          /\ db'.users = db.users
          /\ db'.messages = db.messages]_vars

\* A group was made while another group, with members, was there.
C10_Witness ==
  /\ last.op = "make_group"
  /\ last.resp = "Success"
  /\ valid_group(db, last.a)
  /\ \E h \in Groups \ {last.a} : db.groups[h].members # {}
  /\ db.groups[last.a].members = {last.p}

\* C11: every existing DM (a group with is_dm = true) has exactly two
\* members and exactly one channel, in every state between two requests.
C11_DmShape ==
  \A g \in Groups :
    db.groups[g].is_dm =>
      /\ Cardinality(db.groups[g].members) = 2
      /\ Cardinality(db.groups[g].channels) = 1

\* C12: gen_id returns no id twice: the ids returned to all callers, over
\* all their calls and in every interleaving, are pairwise distinct.
C12_IdsDistinct ==
  \A c, d \in CallerIds :
    \A i \in 1..Len(idgen.got[c]) : \A j \in 1..Len(idgen.got[d]) :
      (c # d \/ i # j) => idgen.got[c][i] # idgen.got[d][j]

\* Every caller made all its calls, two of them within one tick of the clock.
C12_Witness ==
  /\ \A c \in CallerIds : Len(idgen.got[c]) = Calls
  /\ \E c, d \in CallerIds : \E i \in 1..Calls, j \in 1..Calls :
       /\ idgen.got[c][i] # idgen.got[d][j]
       /\ idgen.got[c][i] \div SeqMod = idgen.got[d][j] \div SeqMod

\* A token login has issued: signed with the key of this process over
\* claims of a user id and an expiry.
issued(tok) ==
  \E id \in UserIds, t \in 0..(MaxNow + Day) :
    tok = sign_with_key(ServerKey, Claims(id, t))

\* C13: api_checker returns the claims of a token exactly when login of this
\* process issued the token, the token is unaltered and its expiry has not
\* passed (now <= exp); for every other token (expired, claims or signature
\* segment altered, signed with another key) it returns None.
C13_VerifyExact ==
  auth.checked.token # NoToken =>
    auth.checked.result =
      IF issued(auth.checked.token) /\ auth.checked.at <= auth.checked.token.claims.exp
        THEN auth.checked.token.claims
      ELSE None

\* C19: login answers BadRequest for a hash that is not 64 characters long,
\* whatever the user id; else NotFound for a user id that does not exist;
\* else Unauthorized for a hash that is not the stored one; else Success with
\* a token of that user id that api_checker accepts; it never changes the
\* store.
C19_LoginOrder ==
  [][last'.op = "login" =>
       LET stored == db_get_user_hash(db, last'.a)
           same == \/ auth'.hash = stored
                   \/ /\ hex_decode(auth'.hash).ok /\ hex_decode(stored).ok
                      /\ hex_decode(auth'.hash) = hex_decode(stored)
       IN /\ db' = db
          /\ last'.resp =
               IF HashLen(auth'.hash) # 64 THEN "BadRequest"
               ELSE IF ~valid_user(db, last'.a) THEN "NotFound"
               ELSE IF ~same THEN "Unauthorized"
               ELSE "Success"
          /\ last'.resp = "Success" =>
               /\ api_checker(auth'.body, auth'.now).kind = "claims"
               /\ api_checker(auth'.body, auth'.now).id = last'.a]_vars

\* The role a handler asks for is not the principal's: the group (for a
\* channel or a message, the group of the channel) exists, and the principal
\* is not its owner (owner-gated), neither one of its admins nor its owner
\* (admin-gated), neither the author of the message nor one of its admins
\* (delete_message).
lacks_role(d, op, p, a) ==
  IF op \in OwnerGated
    THEN valid_group(d, a) /\ db_get_group_owner(d, a) # p
  ELSE IF op \in {"add_group_member", "remove_group_member", "make_channel"}
    THEN /\ valid_group(d, a)
         /\ p \notin db_get_group_admin(d, a)
         /\ db_get_group_owner(d, a) # p
  ELSE IF op \in AdminGated
    THEN /\ valid_channel(d, a)
         /\ valid_group(d, d.channels[a].group)
         /\ p \notin db_get_group_admin(d, d.channels[a].group)
         /\ db_get_group_owner(d, d.channels[a].group) # p
  ELSE /\ op \in AuthorGated
       /\ valid_message(d, a)
       /\ valid_channel(d, d.messages[a].channel)
       /\ valid_group(d, d.channels[d.messages[a].channel].group)
       /\ d.messages[a].author # p
       /\ p \notin db_get_group_admin(d, d.channels[d.messages[a].channel].group)

\* C14, as stated: every request of a role-gated handler by a principal who
\* lacks the role is answered Unauthorized and changes nothing in the store.
C14_DeniedUnauthorized ==
  [][lacks_role(db, last'.op, last'.p, last'.a) =>
       last'.resp = "Unauthorized" /\ db' = db]_vars

\* C14, amended: such a request changes nothing in the store and is never
\* a Success; it is answered Unauthorized unless a check the handler makes
\* before the role fails: BadRequest for the empty name (update_group,
\* make_channel), NotFound for a target user that does not exist.
C14_DeniedUnchanged ==
  [][lacks_role(db, last'.op, last'.p, last'.a) =>
       /\ db' = db
       /\ \/ last'.resp = "Unauthorized"
          \/ last'.resp = "BadRequest" /\ last'.op \in {"update_group", "make_channel"}
          \/ /\ last'.resp = "NotFound"
             /\ last'.op \in {"remove_group_member", "add_group_admin",
                              "remove_group_admin", "add_channel_member",
                              "remove_channel_member"}
             /\ ~valid_user(db, last'.b)]_vars

\* A member of the group who is no admin asked for an admin's operation on
\* a channel of the group and was answered Unauthorized.
C14_Witness ==
  /\ last.op = "make_channel_private"
  /\ last.resp = "Unauthorized"
  /\ lacks_role(db, last.op, last.p, last.a)
  /\ last.p \in db_get_group_members(db, db.channels[last.a].group)
  /\ last.p \in db_get_channel_members(db, last.a)

\* The store without the group g, and without the channel c.
without_group(d, g) == [d EXCEPT !.groups = Drop(@, g)]
without_channel(d, c) == [d EXCEPT !.channels = Drop(@, c)]

\* C15: get_group and get_channel answer NotFound to a principal who is not
\* in the member list of the group or channel asked for, and the answer is
\* the same whether the id is of an existing resource or of none, and
\* whatever the other members of the resource are.
C15_NonMemberNotFound ==
  /\ \A p \in Principals :
       /\ \A g \in GroupArgs :
            p \notin db_get_group_members(db, g) =>
              /\ get_group_response(db, p, g) = "NotFound"
              /\ get_group_response(without_group(db, g), p, g) = "NotFound"
              /\ valid_group(db, g) =>
                   \A m \in SUBSET (UserIds \ {p}) :
                     get_group_response([db EXCEPT !.groups[g].members = m], p, g)
                       = "NotFound"
       /\ \A c \in ChannelArgs :
            p \notin db_get_channel_members(db, c) =>
              /\ get_channel_response(db, p, c) = "NotFound"
              /\ get_channel_response(without_channel(db, c), p, c) = "NotFound"
              /\ valid_channel(db, c) =>
                   \A m \in SUBSET (UserIds \ {p}) :
                     get_channel_response([db EXCEPT !.channels[c].members = m], p, c)
                       = "NotFound"
  /\ (last.op = "get_group" /\ last.p \notin db_get_group_members(db, last.a))
       => last.resp = "NotFound"
  /\ (last.op = "get_channel" /\ last.p \notin db_get_channel_members(db, last.a))
       => last.resp = "NotFound"

\* A user asked for an existing group with members they are not one of, and
\* was answered NotFound.
C15_Witness ==
  /\ last.op = "get_group"
  /\ last.resp = "NotFound"
  /\ valid_group(db, last.a)
  /\ valid_user(db, last.p)
  /\ db_get_group_members(db, last.a) # {}
  /\ last.p \notin db_get_group_members(db, last.a)

\* C16: a request during which a store call returns Err is answered
\* InternalError; the handler does not panic.
C16_StoreErrorSurfaced ==
  [][run'.faults > run.faults => last'.resp = "InternalError"]_vars

\* C17: when a cascade (delete_user, delete_group, remove_group_member) has
\* stopped after some of its store calls and the same request is made
\* again, the request passes its checks, none of its store calls fails, and
\* the store it leaves is the store one whole run of the cascade leaves.
C17_RetryCompletes ==
  \A p \in Principals :
    /\ \A q \in delete_user_interrupted(db, p) :
         delete_user_db(q, p) = delete_user_db(db, p)
    /\ \A g \in GroupArgs :
         (valid_group(db, g) /\ owner_check(db, p, g)) =>
           \A q \in delete_group_interrupted(db, g) :
             /\ valid_group(q, g)
             /\ owner_check(q, p, g)
             /\ delete_group_db(q, g) = delete_group_db(db, g)
    /\ \A g \in GroupArgs : \A u \in UserArgs :
         (valid_group(db, g) /\ valid_user(db, u) /\ remove_member_check(db, p, g, u)) =>
           \A q \in __remove_group_member_interrupted(db, g, u) :
             /\ valid_group(q, g)
             /\ valid_user(q, u)
             /\ remove_member_check(q, p, g, u)
             /\ ~__remove_group_member_fails(q, g, u)
             /\ __remove_group_member(q, g, u) = __remove_group_member(db, g, u)

\* A delete_user stopped by a store error after the user record was deleted
\* and before the user was out of every group: the same request made again
\* has work to do.
C17_Witness ==
  /\ last.op = "delete_user"
  /\ last.resp = "Panic"
  /\ ~valid_user(db, last.p)
  /\ \E g \in Groups : last.p \in db.groups[g].members
  /\ delete_user_db(db, last.p) # db

\* C20: the admins of every group are members of it.
C20_AdminsAreMembers ==
  \A g \in Groups : db.groups[g].admin \subseteq db.groups[g].members

\* C18: when the removal cascades for the same group and user, run at the
\* same time with their store calls in any order, are all done, none of
\* them met an error and the store is the store one removal leaves: the user
\* out of the group's members and of all the group's channels, the group
\* out of the user's index, every other member where they were.
C18_RaceConverges ==
  /\ \A i \in RacerIds : run.procs[i].pc # "panic"
  /\ (\A i \in RacerIds : run.procs[i].pc = "done") =>
       LET g == run.procs[1].gid
           u == run.procs[1].uid
       IN /\ db = __remove_group_member(run.base, g, u)
          /\ u \notin db_get_group_members(db, g)
          /\ \A c \in db_get_group_channels(db, g) : u \notin db_get_channel_members(db, c)
          /\ g \notin db.user_groups[u]
          /\ db.groups[g].members = run.base.groups[g].members \ {u}
          /\ \A c \in db_get_group_channels(db, g) :
               db.channels[c].members = run.base.channels[c].members \ {u}

\* Two removals of a member of a group with two channels and another member
\* are both done.
C18_Witness ==
  /\ \A i \in RacerIds : run.procs[i].pc = "done"
  /\ run.procs[1].uid \in run.base.groups[run.procs[1].gid].members
  /\ Cardinality(db_get_group_channels(db, run.procs[1].gid)) = 2
  /\ db_get_group_members(db, run.procs[1].gid) # {}
  /\ run.procs[1].gid \in run.base.user_groups[run.procs[1].uid]

\* C21: between two requests, every existing channel (threads too) has a
\* parent group that exists and has the channel in its channel list, and
\* every id in a group's channel list is of an existing channel.
C21_ChannelParent ==
  /\ \A c \in Channels :
       /\ valid_group(db, db.channels[c].group)
       /\ c \in db_get_group_channels(db, db.channels[c].group)
  /\ \A g \in Groups : db.groups[g].channels \subseteq Channels

C23_ListingGated ==
  [][/\ (/\ last'.op \in {"search_channel", "get_channel_messages"}
          /\ db_get_messages(db, last'.a) # {}
          /\ last'.p \notin db_get_channel_members(db, last'.a))
          => last'.resp # "Success"
     /\ (/\ last'.op = "get_channel_members"
          /\ db_get_channel_members(db, last'.a) # {}
          /\ last'.p \notin db_get_channel_members(db, last'.a))
          => last'.resp # "Success"
     /\ (/\ last'.op = "get_group_members"
          /\ db_get_group_members(db, last'.a) # {}
          /\ last'.p \notin db_get_group_members(db, last'.a))
          => last'.resp # "Success"]_vars

\* A token that does not parse: no second segment, or a claims segment that
\* is no base64, no UTF-8 once decoded, or no JSON of Claims.
malformed(tok) ==
  \/ tok.parts < 2
  \/ tok.claims.kind \in {"not_base64", "not_utf8", "not_json"}

\* C24: for every malformed token api_checker returns None: it does not
\* panic and has no other outcome.
C24_MalformedNone ==
  malformed(auth.checked.token) => auth.checked.result = None

\* The user u is in the group g throughout: in its member list, in each of
\* its public channels, g in u's index.
member_throughout(d, g, u) ==
  /\ u \in db_get_group_members(d, g)
  /\ \A c \in db_get_group_channels(d, g) :
       db_is_channel_private(d, c) \/ u \in db_get_channel_members(d, c)
  /\ g \in (IF db_is_group_dm(d, g) THEN d.user_dms[u] ELSE d.user_groups[u])
\* The user u is out of the group g throughout.
member_nowhere(d, g, u) ==
  /\ u \notin db_get_group_members(d, g)
  /\ \A c \in db_get_group_channels(d, g) : u \notin db_get_channel_members(d, c)
  /\ g \notin d.user_groups[u] \cup d.user_dms[u]

\* C25: when an addition and a removal of the same user and group, run at
\* the same time with their store calls in any order, are both through, the
\* user is either in the group throughout (member list, public channels,
\* index) or out of it throughout.
C25_MixConsistent ==
  (/\ \E i \in RacerIds : run.procs[i].pc = "added"
   /\ \E i \in RacerIds : run.procs[i].pc = "done"
   /\ \A i \in RacerIds : run.procs[i].pc \in {"added", "done"})
    => \/ member_throughout(db, run.procs[1].gid, run.procs[1].uid)
       \/ member_nowhere(db, run.procs[1].gid, run.procs[1].uid)

\* C26: between two requests, every member of a channel is an existing user
\* and a member of the channel's parent group.
C26_ChannelMembersInGroup ==
  \A c \in Channels : \A u \in db.channels[c].members :
    /\ valid_user(db, u)
    /\ u \in db_get_group_members(db, db.channels[c].group)

====
